---------------------------- MODULE Spec2Model ----------------------------
(***************************************************************************)
(* PageBlock (waterbox/waterboxhost/src/memory_block/pageblock.rs): the    *)
(* ownership of one PAGESIZE-byte page obtained straight from the          *)
(* operating system (mmap/munmap on unix, VirtualAlloc/VirtualFree on      *)
(* windows).                                                               *)
(*                                                                         *)
(* The model holds the operating system's side (which pages are mapped,    *)
(* the bytes of memory, stale bytes of unmapped pages included), the       *)
(* program's side (the handles with their pointer, the threads that own    *)
(* them, whether the process still runs) and a record of the operation     *)
(* performed last, which the properties read.                              *)
(*                                                                         *)
(* Memory is byte addressed.  Page pg covers the byte addresses            *)
(* pg*PAGESIZE .. pg*PAGESIZE + PAGESIZE - 1.  Page 0 is the null page and *)
(* is never handed out; the top byte address is MAP_FAILED.                *)
(*                                                                         *)
(* Every operation of PageBlock makes at most one system call and touches  *)
(* nothing else that another thread can see, so each is one step of the    *)
(* thread that runs it, and the steps of the threads interleave freely.    *)
(***************************************************************************)
EXTENDS Integers, FiniteSets, Sequences, TLC

\* ------------------------------------------------------------- bounds
\* Pages of address space the operating system can hand out.
NumPages == 2
\* PageBlock::new() calls that may succeed in one run.
MaxHandles == 2

\* -------------------------------------------------- program constants
\* PAGESIZE is set in the crate root (use crate::*), 4096 on the usual hosts; the
\* model scales it down.
PAGESIZE == 2
\* Number of values of a u8, scaled down from 256 (the type of `ptr: NonNull<u8>`
\* and the target of `i as u8`).
ByteMod == 2
\* std::ptr::null_mut()
NULL == 0

\* ------------------------------------------------------- value domains

Bytes == 0..(ByteMod - 1)
Offsets == 0..(PAGESIZE - 1)
Pages == 1..NumPages
ByteAddrs == PAGESIZE..((NumPages + 1) * PAGESIZE - 1)
\* libc::MAP_FAILED is (void *) -1: the top address, inside no page the OS hands out.
MAP_FAILED == (NumPages + 2) * PAGESIZE - 1
\* Two threads of the host program: what is claimed about threads is claimed
\* about any two of them.
Threads == {1, 2}
Handles == 1..MaxHandles

VARIABLES
    platform,       \* "unix" | "windows": the #[cfg] the crate was built for
    panicStrategy,  \* "unwind" | "abort": what panic! does in this build
    proc,           \* "running" | "aborted"
    thr,            \* thread -> "idle" | "running" | "unwinding"
    mapped,         \* OS: the set of pages currently mapped
    mem,            \* OS: byte address -> byte
    state,          \* handle -> "unallocated" | "allocated" | "released" | "dropfailed"
    owner,          \* handle -> owning thread (0 when no such PageBlock exists)
    ptr,            \* handle -> PageBlock.ptr (NULL when no such PageBlock exists)
    acq,            \* history: handle -> address its acquisition returned
    freeCalls,      \* history: handle -> number of OS release calls made for it
    last            \* history: what the operation performed last returned or passed on

vars == <<platform, panicStrategy, proc, thr, mapped, mem, state, owner, ptr,
          acq, freeCalls, last>>

\* op: "none", or the call observed: "new" or "drop"; addr: the address new()
\* got from alloc() or drop() handed to free(); stale: new() got an address
\* whose page held non-zero bytes of an earlier owner.
Obs(op, addr, stale) == [op |-> op, addr |-> addr, stale |-> stale]
NoObs == Obs("none", NULL, FALSE)

\* ------------------------------------------------ the operating system
\* Pages that the byte range [addr, addr + len) touches.
PagesCovering(addr, len) ==
    {pg \in Pages : pg * PAGESIZE < addr + len /\ (pg + 1) * PAGESIZE > addr}

PageOf(b) == b \div PAGESIZE
BytesOf(pgs) == {b \in ByteAddrs : PageOf(b) \in pgs}

\* Faulty variant of MapAt: the mapping is handed out with whatever its page held.
MapAt_uninit(base, len) ==
    LET run == PagesCovering(base, len) IN
    [ret    |-> base,
     mapped |-> mapped \cup run,
     mem    |-> mem,
     stale  |-> \E b \in BytesOf(run) : mem[b] # 0]

\* The OS side of a successful anonymous private mapping of len bytes at a free
\* address of its own choosing: the pages become mapped and read as zero.
MapAt(base, len) ==
    LET run == PagesCovering(base, len) IN
    [ret    |-> base,
     mapped |-> mapped \cup run,
     mem    |-> [b \in ByteAddrs |-> IF PageOf(b) \in run THEN 0 ELSE mem[b]],
     stale  |-> \E b \in BytesOf(run) : mem[b] # 0]

\* Faulty variant of FreeBases: the address is picked without regard to what is mapped.
FreeBases_any(len) ==
    {pg * PAGESIZE : pg \in {q \in Pages : q * PAGESIZE + len <= (NumPages + 1) * PAGESIZE}}

FreeBases(len) ==
    {pg * PAGESIZE : pg \in {q \in Pages :
        /\ PagesCovering(q * PAGESIZE, len) \cap mapped = {}
        /\ q * PAGESIZE + len <= (NumPages + 1) * PAGESIZE}}

Declined(ret) == [ret |-> ret, mapped |-> mapped, mem |-> mem, stale |-> FALSE]

\* mmap(null_mut(), len, PROT_READ | PROT_WRITE, MAP_PRIVATE | MAP_ANONYMOUS, -1, 0)
\* Without MAP_FIXED a successful mmap returns the base of a free range, which is
\* never address 0.
mmap(len) == {MapAt(base, len) : base \in FreeBases(len)} \cup {Declined(MAP_FAILED)}

\* VirtualAlloc(null_mut(), len, MEM_RESERVE | MEM_COMMIT, PAGE_READWRITE)
VirtualAlloc(len) == {MapAt(base, len) : base \in FreeBases(len)} \cup {Declined(NULL)}

\* What an unmapped page holds cannot be read by the program and is the operating
\* system's to decide.  The model keeps one thing about it: whether its last owner
\* left a non-zero byte there, in which case every byte of it is Stale.
Stale == ByteMod - 1

Unmap(pgs) ==
    LET gone == pgs \cap mapped
        dirty == {pg \in gone : \E c \in BytesOf({pg}) : mem[c] # 0}
    IN  [mapped |-> mapped \ pgs,
         mem    |-> [b \in ByteAddrs |->
                       IF PageOf(b) \in dirty THEN Stale ELSE mem[b]]]

Refused(ret) == [ret |-> ret, mapped |-> mapped, mem |-> mem]

\* munmap(addr, len): 0 on success, -1 on failure (an unaligned addr is EINVAL).
munmap(addr, len) ==
    {Refused(-1)} \cup
    (IF addr % PAGESIZE = 0
     THEN {[ret |-> 0] @@ Unmap(PagesCovering(addr, len))}
     ELSE {})

\* VirtualFree(addr, 0, MEM_RELEASE): nonzero on success, 0 on failure.  It
\* releases the whole region that the VirtualAlloc call at addr reserved, which
\* alloc() sized PAGESIZE; an address that is no region base fails.
VirtualFree(addr) ==
    {Refused(0)} \cup
    (IF addr % PAGESIZE = 0 /\ (addr \div PAGESIZE) \in mapped
     THEN {[ret |-> 1] @@ Unmap(PagesCovering(addr, PAGESIZE))}
     ELSE {})

\* --------------------------------------------------- platform back ends
alloc_windows == VirtualAlloc(PAGESIZE)

\* Faulty variant of alloc_unix: MAP_FAILED is passed on as it is.
alloc_unix_raw == mmap(PAGESIZE)

alloc_unix ==
    {[o EXCEPT !.ret = IF o.ret = MAP_FAILED THEN NULL ELSE o.ret] : o \in mmap(PAGESIZE)}

alloc == IF platform = "unix" THEN alloc_unix ELSE alloc_windows

free_windows(p) ==
    {[res |-> (o.ret # 0), mapped |-> o.mapped, mem |-> o.mem, addr |-> p] :
        o \in VirtualFree(p)}

\* Faulty variant of free_unix: the result of munmap is not looked at.
free_unix_ignore(p) ==
    {[res |-> TRUE, mapped |-> o.mapped, mem |-> o.mem, addr |-> p] :
        o \in munmap(p, PAGESIZE)}

\* Faulty variant of free_unix: twice the length is unmapped.
free_unix_len(p) ==
    {[res |-> (o.ret = 0), mapped |-> o.mapped, mem |-> o.mem, addr |-> p] :
        o \in munmap(p, 2 * PAGESIZE)}

free_unix(p) ==
    {[res |-> (o.ret = 0), mapped |-> o.mapped, mem |-> o.mem, addr |-> p] :
        o \in munmap(p, PAGESIZE)}

free(p) == IF platform = "unix" THEN free_unix(p) ELSE free_windows(p)

\* ------------------------------------------------------------- panic!
\* panic! unwinds the panicking thread, or aborts the process when the build
\* sets panic = "abort" or when the thread is already unwinding.
panic_proc(t) ==
    IF panicStrategy = "abort" \/ thr[t] = "unwinding" THEN "aborted" ELSE proc

\* Faulty variant of panic_thr: the failure is swallowed and the thread goes on.
panic_thr_swallow(t) == thr

panic_thr(t) ==
    IF panicStrategy = "abort" \/ thr[t] = "unwinding"
    THEN thr
    ELSE [thr EXCEPT ![t] = "unwinding"]

\* ------------------------------------------------------------ PageBlock
IsLive(h) == state[h] = "allocated"
Live == {h \in Handles : IsLive(h)}
Unallocated == {h \in Handles : state[h] = "unallocated"}
NextHandle == CHOOSE h \in Unallocated : \A g \in Unallocated : h <= g

\* The views: a start address and a length.
slice(h) == [start |-> ptr[h], len |-> PAGESIZE]
\* Faulty variant of slice_mut: the view starts one byte late.
slice_mut_off(h) == [start |-> ptr[h] + 1, len |-> PAGESIZE]
slice_mut(h) == [start |-> ptr[h], len |-> PAGESIZE]
as_ptr(h) == ptr[h]
\* Faulty variant of as_mut_ptr: the address is one byte off.
as_mut_ptr_off(h) == ptr[h] + 1
as_mut_ptr(h) == ptr[h]

\* The bytes a view denotes.
View(s) == [i \in 0..(s.len - 1) |-> mem[s.start + i]]

Init ==
    /\ platform \in {"unix", "windows"}
    /\ panicStrategy \in {"unwind", "abort"}
    /\ proc = "running"
    /\ thr = [t \in Threads |-> "idle"]
    /\ mapped = {}
    /\ mem = [b \in ByteAddrs |-> 0]
    /\ state = [h \in Handles |-> "unallocated"]
    /\ owner = [h \in Handles |-> 0]
    /\ ptr = [h \in Handles |-> NULL]
    /\ acq = [h \in Handles |-> NULL]
    /\ freeCalls = [h \in Handles |-> 0]
    /\ last = NoObs

\* Threads are numbered in the order of their first call of PageBlock::new().
CanCall(t) ==
    \/ thr[t] = "running"
    \/ thr[t] = "idle" /\ \A u \in Threads : u < t => thr[u] # "idle"

\* PageBlock::new() called by thread t.
new(t) ==
    /\ proc = "running"
    /\ CanCall(t)
    /\ Unallocated # {}
    /\ \E out \in alloc :
        /\ mapped' = out.mapped
        /\ mem' = out.mem
        /\ last' = Obs("new", out.ret, out.stale)
        /\ IF out.ret = NULL
           THEN /\ proc' = panic_proc(t)
                /\ thr' = panic_thr(t)
                /\ UNCHANGED <<state, owner, ptr, acq>>
           ELSE LET h == NextHandle IN
                /\ state' = [state EXCEPT ![h] = "allocated"]
                /\ owner' = [owner EXCEPT ![h] = t]
                /\ ptr' = [ptr EXCEPT ![h] = out.ret]
                /\ acq' = [acq EXCEPT ![h] = out.ret]
                /\ thr' = [thr EXCEPT ![t] = "running"]
                /\ UNCHANGED proc
    /\ UNCHANGED <<platform, panicStrategy, freeCalls>>

\* What one run of the destructor of h in thread t leaves behind, given the
\* outcome out of free() and the number of release calls it made.
Dropped(t, h, out, calls) ==
    /\ mapped' = out.mapped
    /\ mem' = out.mem
    /\ freeCalls' = [freeCalls EXCEPT ![h] = @ + calls]
    /\ last' = Obs("drop", out.addr, FALSE)
    /\ IF out.res
       THEN /\ state' = [state EXCEPT ![h] = "released"]
            /\ acq' = [acq EXCEPT ![h] = NULL]
            /\ UNCHANGED <<proc, thr>>
       ELSE /\ state' = [state EXCEPT ![h] = "dropfailed"]
            /\ proc' = panic_proc(t)
            /\ thr' = panic_thr(t)
            /\ UNCHANGED acq
    \* The PageBlock value is gone once its destructor has run.
    /\ owner' = [owner EXCEPT ![h] = 0]
    /\ ptr' = [ptr EXCEPT ![h] = NULL]
    /\ UNCHANGED <<platform, panicStrategy>>

CanDrop(t, h) == proc = "running" /\ IsLive(h) /\ owner[h] = t

\* Faulty variant of drop: a declined release is tried a second time before panicking.
drop_retry(t, h) ==
    /\ CanDrop(t, h)
    /\ \E out \in free(ptr[h]) : Dropped(t, h, out, IF out.res THEN 1 ELSE 2)

\* Faulty variant of drop: the handle stays usable after its page was released, as a
\* bitwise copy of the PageBlock would.
drop_copy(t, h) ==
    /\ CanDrop(t, h)
    /\ \E out \in free(ptr[h]) :
        /\ out.res
        /\ mapped' = out.mapped
        /\ mem' = out.mem
        /\ freeCalls' = [freeCalls EXCEPT ![h] = @ + 1]
        /\ last' = Obs("drop", out.addr, FALSE)
        /\ UNCHANGED <<platform, panicStrategy, proc, thr, state, owner, ptr, acq>>

\* <PageBlock as Drop>::drop(), run by thread t on its handle h.
drop(t, h) ==
    /\ CanDrop(t, h)
    /\ \E out \in free(ptr[h]) : Dropped(t, h, out, 1)

\* The handle goes out of scope (or is passed to drop()) in a running thread.
Drop(t, h) == thr[t] = "running" /\ drop(t, h)

\* Unwinding runs the destructors of the handles the panicking thread owns.
Unwind(t, h) == thr[t] = "unwinding" /\ drop(t, h)

Usable(t, h) == proc = "running" /\ thr[t] = "running" /\ IsLive(h) /\ owner[h] = t

Frame == UNCHANGED <<platform, panicStrategy, proc, thr, mapped, state, owner, ptr,
                     acq, freeCalls>>

\* s.slice_mut()[i] = v
Write(t, h, i, v) ==
    /\ Usable(t, h)
    /\ last' = NoObs
    /\ Frame
    /\ LET s == slice_mut(h) IN
        /\ i < s.len
        /\ mem' = [mem EXCEPT ![s.start + i] = v]

\* basic_test: for i in 0..PAGESIZE { ml[i] = i as u8; }
Fill(t, h) ==
    /\ Usable(t, h)
    /\ last' = NoObs
    /\ Frame
    /\ LET s == slice_mut(h) IN
        mem' = [b \in ByteAddrs |->
                  IF b - s.start \in 0..(s.len - 1) /\ b - s.start \in Offsets
                  THEN (b - s.start) % ByteMod
                  ELSE mem[b]]

\* The owner looks at its handle through slice(), as_ptr() and as_mut_ptr();
\* last records what each of them returned.
Accessors(t, h) ==
    /\ Usable(t, h)
    /\ last' = [op |-> "accessors", slice |-> slice(h), as_ptr |-> as_ptr(h),
                as_mut_ptr |-> as_mut_ptr(h)]
    /\ UNCHANGED mem
    /\ Frame

Next ==
    \/ \E t \in Threads : new(t)
    \/ \E t \in Threads, h \in Handles : Drop(t, h)
    \/ \E t \in Threads, h \in Handles : Unwind(t, h)
    \/ \E t \in Threads, h \in Handles, i \in Offsets, v \in Bytes : Write(t, h, i, v)
    \/ \E t \in Threads, h \in Handles : Fill(t, h)
    \/ \E t \in Threads, h \in Handles : Accessors(t, h)

Spec == Init /\ [][Next]_vars

\* ----------------------------------------------------------- properties
Bases == {pg * PAGESIZE : pg \in Pages}
Read(h) == View(slice(h))
ZeroPage == [i \in Offsets |-> 0]
Pattern == [i \in Offsets |-> i % ByteMod]
Declined_new == last.op = "new" /\ last.addr = NULL
\* The step runs the destructor of the live handle h.
DropOf(h) == state[h] = "allocated" /\ state'[h] # "allocated"

TypeOK ==
    /\ platform \in {"unix", "windows"}
    /\ panicStrategy \in {"unwind", "abort"}
    /\ proc \in {"running", "aborted"}
    /\ thr \in [Threads -> {"idle", "running", "unwinding"}]
    /\ mapped \subseteq Pages
    /\ mem \in [ByteAddrs -> Bytes]
    /\ state \in [Handles -> {"unallocated", "allocated", "released", "dropfailed"}]
    /\ owner \in [Handles -> Threads \cup {0}]
    /\ ptr \in [Handles -> Bases \cup {NULL}]
    /\ acq \in [Handles -> Bases \cup {NULL}]
    /\ freeCalls \in [Handles -> 0..1]

\* C1: a PageBlock that new() has just returned reads zero at every one of its
\* PAGESIZE offsets, also when the page at its address held stale non-zero bytes.
C1_ZeroAtAcquisition ==
    (last.op = "new" /\ last.addr # NULL) =>
        \E h \in Live :
            /\ acq[h] = last.addr
            /\ Read(h) = ZeroPage

\* C1 witness: new() has just returned an address whose page held non-zero
\* bytes written by an earlier owner.
C1_Witness ==
    /\ last.op = "new" /\ last.addr # NULL /\ last.stale
    /\ \E h \in Live : acq[h] = last.addr /\ Read(h) = ZeroPage
    /\ \E g \in Handles : state[g] = "released"

\* C2: a write of v at offset i through slice_mut() reads back as v at i through
\* slice() and leaves every other offset of the page as it was; the fill of
\* basic_test reads back as i mod 256 (here: mod ByteMod) at every offset i.
C2_WriteReadBack ==
    [][last' = NoObs =>
         \A h \in Live :
             /\ \A i \in Offsets, v \in Bytes :
                  Write(owner[h], h, i, v) =>
                      /\ Read(h)'[i] = v
                      /\ \A j \in Offsets \ {i} : Read(h)'[j] = Read(h)[j]
             /\ Fill(owner[h], h) => Read(h)' = Pattern]_vars

\* C2 witness: a live page reads back the fill pattern, which is not all zero.
C2_Witness ==
    \E h \in Live : Read(h) = Pattern /\ Pattern # ZeroPage

\* C3: every live PageBlock holds an address that is neither null nor
\* MAP_FAILED.
C3_NonNull ==
    \A h \in Live : ptr[h] # NULL /\ ptr[h] # MAP_FAILED /\ ptr[h] \in Bases

\* C3 witness: mmap has just returned MAP_FAILED on unix while a handle is live.
C3_Witness ==
    Declined_new /\ platform = "unix" /\ Live # {}

C5_Lifecycle ==
    [][\A h \in Handles :
         /\ (state[h] # state'[h]) =>
                <<state[h], state'[h]>> \in
                    {<<"unallocated", "allocated">>, <<"allocated", "released">>,
                     <<"allocated", "dropfailed">>}
         /\ (state'[h] \in {"unallocated", "allocated"}) => freeCalls'[h] = 0
         /\ (state'[h] \in {"released", "dropfailed"}) =>
                freeCalls'[h] = 1 /\ ptr'[h] = NULL /\ owner'[h] = 0]_vars

\* C5 witness: every handle of the run has been acquired and released.
C5_Witness ==
    \A h \in Handles : state[h] = "released" /\ freeCalls[h] = 1

C7_NoLeak ==
    (\A h \in Handles : state[h] # "dropfailed") =>
        /\ mapped = {PageOf(ptr[h]) : h \in Live}
        /\ Cardinality(mapped) = Cardinality(Live)

\* C7 witness: MaxHandles cycles of new() and drop are over and nothing is mapped.
C7_Witness ==
    /\ \A h \in Handles : state[h] = "released"
    /\ mapped = {}
    /\ \A t \in Threads : thr[t] # "unwinding"

\* C8: drop() hands to the OS the address the handle's acquisition returned, and
\* a release that succeeds unmaps that one page and no other; the other live
\* handles keep their address, their page and its bytes.
C8_ReleaseExact ==
    [][\A h \in Live :
         DropOf(h) =>
             /\ last'.op = "drop" /\ last'.addr = acq[h]
             /\ state'[h] = "released" => mapped' = mapped \ {PageOf(acq[h])}
             /\ state'[h] = "dropfailed" => mapped' = mapped
             /\ \A g \in Live \ {h} :
                   /\ IsLive(g)'
                   /\ ptr'[g] = ptr[g]
                   /\ PageOf(ptr[g]) \in mapped'
                   /\ Read(g)' = Read(g)]_vars

\* C8 witness: a handle has just been released while another one is live with
\* non-zero bytes, on either back end.
C8_Witness ==
    /\ last.op = "drop"
    /\ \E h \in Handles : state[h] = "released"
    /\ \E g \in Live : Read(g) # ZeroPage /\ PageOf(ptr[g]) \in mapped

\* C9: two live handles never have the same address, and a write, a fill or a
\* drop through one handle changes neither the bytes nor the liveness of a
\* handle that another thread owns.
C9_Exclusive ==
    [][/\ \A g, h \in Handles :
            (IsLive(g)' /\ IsLive(h)' /\ g # h) => PageOf(ptr[g])' # PageOf(ptr[h])'
       /\ \A h \in Live :
            \/ DropOf(h)
            \/ last' = NoObs /\ Fill(owner[h], h)
            \/ last' = NoObs /\ \E i \in Offsets, v \in Bytes : Write(owner[h], h, i, v)
            => \A g \in Live :
                   owner[g] # owner[h] =>
                       IsLive(g)' /\ owner'[g] = owner[g] /\ Read(g)' = Read(g)]_vars

\* C9 witness: two threads each own a live handle and the two pages hold
\* different bytes.
C9_Witness ==
    \E g, h \in Live : owner[g] # owner[h] /\ Read(g) # Read(h) /\ Read(h) # ZeroPage

\* C10: while a handle is live, as_ptr(), as_mut_ptr() and the start of slice()
\* and slice_mut() are the address its acquisition returned, the views are
\* PAGESIZE long and the page is mapped; the address of a live handle does not
\* change, and a call of the accessors changes no handle, no byte and no mapping.
C10_Stable ==
    [][/\ \A h \in Handles :
            IsLive(h)' =>
                /\ as_ptr(h)' = acq'[h]
                /\ as_mut_ptr(h)' = acq'[h]
                /\ slice(h)' = [start |-> acq'[h], len |-> PAGESIZE]
                /\ slice_mut(h)' = [start |-> acq'[h], len |-> PAGESIZE]
                /\ PagesCovering(acq'[h], PAGESIZE) \subseteq mapped'
                /\ IsLive(h) => ptr'[h] = ptr[h]
       /\ \A h \in Live :
            (last'.op = "accessors" /\ Accessors(owner[h], h)) =>
                /\ UNCHANGED <<state, owner, ptr, mapped, mem>>
                /\ last'.as_ptr = acq[h]
                /\ last'.as_mut_ptr = acq[h]
                /\ last'.slice = [start |-> acq[h], len |-> PAGESIZE]]_vars

\* C10 witness: the accessors have just been called on a handle whose page holds
\* non-zero bytes.
C10_Witness ==
    /\ last.op = "accessors"
    /\ \E h \in Live : last.as_ptr = acq[h] /\ Read(h) # ZeroPage

=============================================================================
